---- MODULE Spec2Model ----
(***************************************************************************)
(* A model of the "should-i-watch" request pipeline: the four request      *)
(* handlers (server.js, the two handlers of api/analyze.js and the         *)
(* handler of unnamed/part_000), their transcript fetchers, caption        *)
(* parsers and the LLM analysis step.                                      *)
(*                                                                         *)
(* JavaScript values are modelled as follows.  Strings are TLA+ strings.   *)
(* An optional value (undefined / null / absent) is the empty sequence,    *)
(* and a present value v is <<v>>.  A JavaScript object is a record that   *)
(* has exactly the fields that are present.  External collaborators        *)
(* (yt-dlp, HTTP endpoints, the transcript libraries, the LLM, JSON.parse  *)
(* of a document) are nondeterministic choices over their outcomes.        *)
(***************************************************************************)
EXTENDS Integers, Sequences, FiniteSets, TLC

VARIABLES
    variant,     \* which handler file serves the request
    pc,          \* the handler's position: the external call it is about to make
    req,         \* the request: [method, body, videoId]
    calls,       \* the external calls made for the request, in order, each with its outcome
    files,       \* the temporary subtitle files that exist on disk
    logs,        \* the console.error lines written
    meta,        \* title / duration obtained for the video
    transcript,  \* the transcript the fetcher returned to the handler
    track,       \* the caption track (or caption URL) the fetcher selected
    prepared,    \* prepareTranscriptForAnalysis' result
    resp         \* the HTTP responses sent, in order

\* one application of a function of the program to an input
VARIABLES
    fn,          \* the function applied, "none" before
    arg,         \* the input
    ret          \* the function's result

\* the server.js process serving several requests on one event loop
VARIABLES
    stage,       \* per request: where its pipeline stands
    thread       \* the request whose code occupies the process's only thread, 0 if none

\* the page driven by app.js
VARIABLES
    urlValue,      \* urlInput.value
    timers,        \* the paste listener's timeouts not yet fired
    inflight,      \* the analysis requests sent and not yet answered
    submitted,     \* how many URLs have been submitted so far
    loading,       \* analyzeBtn.disabled and the overlay's 'visible' class
    errorVisible,  \* errorMessage has class 'visible'
    resultsHidden, \* results has class 'hidden'
    shown,         \* the submission whose data the results panel holds, 0 if none
    errorOf        \* the submission whose message the error element holds, 0 if none

handlerVars == <<variant, pc, req, calls, files, logs, meta, track, transcript, prepared, resp>>
fnVars == <<fn, arg, ret>>

loopVars == <<stage, thread>>
pageVars == <<urlValue, timers, inflight, submitted, loading, errorVisible, resultsHidden, shown, errorOf>>

vars == <<handlerVars, fnVars, loopVars, pageVars>>

\* what a step of a request handler leaves alone
outsideHandler == <<fnVars, loopVars, pageVars>>

None == <<>>
Some(v) == <<v>>

\* the event loop and the page while they are not modelled
LoopIdle == stage = <<>> /\ thread = 0
PageIdle ==
    /\ urlValue = "" /\ timers = 0 /\ inflight = {} /\ submitted = 0
    /\ loading = FALSE /\ errorVisible = FALSE /\ resultsHidden = TRUE
    /\ shown = 0 /\ errorOf = 0
\* no function applied
FnIdle == fn = "none" /\ arg = None /\ ret = None

----------------------------------------------------------------------------
(* Bounds of the model *)

MaxIdLen == 12
MaxCues == 2
MaxEvents == 2
MaxTracks == 2
MaxItems == 2

----------------------------------------------------------------------------
(* String primitives of the JavaScript runtime *)

Min(a, b) == IF a < b THEN a ELSE b
Max(a, b) == IF a > b THEN a ELSE b

Sub(s, a, b) == SubSeq(s, Max(a, 1), Min(b, Len(s)))

CharAt(s, i) == IF i >= 1 /\ i <= Len(s) THEN SubSeq(s, i, i) ELSE ""

RECURSIVE IndexFrom(_, _, _)
IndexFrom(s, t, i) ==
    IF i + Len(t) - 1 > Len(s) THEN 0
    ELSE IF SubSeq(s, i, i + Len(t) - 1) = t THEN i
    ELSE IndexFrom(s, t, i + 1)

RECURSIVE LastIndexUpTo(_, _, _)
LastIndexUpTo(s, t, i) ==
    IF i < 1 THEN 0
    ELSE IF Sub(s, i, i + Len(t) - 1) = t THEN i
    ELSE LastIndexUpTo(s, t, i - 1)

includes(s, t) == IndexFrom(s, t, 1) # 0

RECURSIVE replaceAll(_, _, _)
replaceAll(s, pat, rep) ==
    LET p == IndexFrom(s, pat, 1)
    IN  IF p = 0 THEN s
        ELSE SubSeq(s, 1, p - 1) \o rep \o replaceAll(Sub(s, p + Len(pat), Len(s)), pat, rep)

WhiteSpace == {" ", "\n", "\t", "\r"}

RECURSIVE trimStart(_)
trimStart(s) ==
    IF Len(s) > 0 /\ CharAt(s, 1) \in WhiteSpace THEN trimStart(Sub(s, 2, Len(s))) ELSE s

RECURSIVE trimEnd(_)
trimEnd(s) ==
    IF Len(s) > 0 /\ CharAt(s, Len(s)) \in WhiteSpace THEN trimEnd(Sub(s, 1, Len(s) - 1)) ELSE s

trim(s) == trimEnd(trimStart(s))

RECURSIVE split(_, _)
split(s, sep) ==
    LET p == IndexFrom(s, sep, 1)
    IN  IF p = 0 THEN <<s>>
        ELSE <<SubSeq(s, 1, p - 1)>> \o split(Sub(s, p + Len(sep), Len(s)), sep)

Digits == {"0", "1", "2", "3", "4", "5", "6", "7", "8", "9"}
Lower == {"a", "b", "c", "d", "e", "f", "g", "h", "i", "j", "k", "l", "m",
          "n", "o", "p", "q", "r", "s", "t", "u", "v", "w", "x", "y", "z"}
Upper == {"A", "B", "C", "D", "E", "F", "G", "H", "I", "J", "K", "L", "M",
          "N", "O", "P", "Q", "R", "S", "T", "U", "V", "W", "X", "Y", "Z"}

DigitValue(c) ==
    CASE c = "0" -> 0 [] c = "1" -> 1 [] c = "2" -> 2 [] c = "3" -> 3 [] c = "4" -> 4
      [] c = "5" -> 5 [] c = "6" -> 6 [] c = "7" -> 7 [] c = "8" -> 8 [] c = "9" -> 9

DigitsAt(s, p, k) == p + k - 1 <= Len(s) /\ \A j \in p..(p + k - 1) : CharAt(s, j) \in Digits

RECURSIVE parseIntDigits(_, _, _)
parseIntDigits(s, p, k) ==
    IF k = 0 THEN 0
    ELSE 10 * parseIntDigits(s, p, k - 1) + DigitValue(CharAt(s, p + k - 1))

----------------------------------------------------------------------------
(* formatTimestamp *)

\* toString() alone
noPadStart(n) == ToString(n)

\* toString().padStart(2, '0')
padStart2(n) == IF n < 10 THEN "0" \o ToString(n) ELSE ToString(n)

formatTimestamp(seconds) ==
    LET hrs == seconds \div 3600
        mins == (seconds % 3600) \div 60
        secs == seconds % 60
    IN  IF hrs > 0
        THEN ToString(hrs) \o ":" \o padStart2(mins) \o ":" \o padStart2(secs)
        ELSE ToString(mins) \o ":" \o padStart2(secs)

----------------------------------------------------------------------------
(* Caption parsers of server.js *)

RECURSIVE skipSpaces(_, _)
skipSpaces(s, p) == IF CharAt(s, p) \in WhiteSpace THEN skipSpaces(s, p + 1) ELSE p

\* /(\d{2}):(\d{2}):(\d{2})\.(\d{3})\s*-->/ matching at position p
timeMatchAt(s, p) ==
    /\ DigitsAt(s, p, 2) /\ CharAt(s, p + 2) = ":"
    /\ DigitsAt(s, p + 3, 2) /\ CharAt(s, p + 5) = ":"
    /\ DigitsAt(s, p + 6, 2) /\ CharAt(s, p + 8) = "."
    /\ DigitsAt(s, p + 9, 3)
    /\ LET q == skipSpaces(s, p + 12) IN Sub(s, q, q + 2) = "-->"

\* the position of the first match in s, 0 when there is none
RECURSIVE timeMatch(_, _)
timeMatch(s, p) ==
    IF p > Len(s) THEN 0
    ELSE IF timeMatchAt(s, p) THEN p
    ELSE timeMatch(s, p + 1)

\* .replace(/<[^>]+>/g, '')
RECURSIVE stripTags(_)
stripTags(s) ==
    LET p == IndexFrom(s, "<", 1)
        q == IF p = 0 THEN 0 ELSE IndexFrom(s, ">", p + 1)
    IN  IF p = 0 \/ q = 0 THEN s
        ELSE IF q = p + 1 THEN SubSeq(s, 1, q) \o stripTags(Sub(s, q + 1, Len(s)))
        ELSE SubSeq(s, 1, p - 1) \o stripTags(Sub(s, q + 1, Len(s)))

cleanCueLine(textLine) ==
    trim(replaceAll(replaceAll(replaceAll(replaceAll(stripTags(textLine),
        "&amp;", "&"), "&lt;", "<"), "&gt;", ">"), "&nbsp;", " "))

\* the inner loop of parseVTT: the text lines from line j up to the next blank line
RECURSIVE cueText(_, _, _)
cueText(lines, j, text) ==
    IF j > Len(lines) \/ trim(lines[j]) = "" THEN text
    ELSE LET textLine == trim(lines[j])
             isTime == DigitsAt(textLine, 1, 2) /\ CharAt(textLine, 3) = ":"
                       /\ DigitsAt(textLine, 4, 2)
             cleanText == cleanCueLine(textLine)
         IN  cueText(lines, j + 1,
                 IF ~isTime /\ textLine # "WEBVTT" /\ cleanText # ""
                 THEN (IF text # "" THEN text \o " " ELSE "") \o cleanText
                 ELSE text)

\* the outer loop of parseVTT
RECURSIVE parseVTTLines(_, _, _)
parseVTTLines(lines, i, acc) ==
    IF i > Len(lines) THEN acc
    ELSE LET line == trim(lines[i])
             p == timeMatch(line, 1)
             currentTime == parseIntDigits(line, p, 2) * 3600
                            + parseIntDigits(line, p + 3, 2) * 60
                            + parseIntDigits(line, p + 6, 2)
             text == cueText(lines, i + 1, "")
         IN  parseVTTLines(lines, i + 1,
                 IF p # 0 /\ text # ""
                 THEN Append(acc, [text |-> text, offset |-> currentTime * 1000, duration |-> 0])
                 ELSE acc)

parseVTT(vttContent) == parseVTTLines(split(vttContent, "\n"), 1, <<>>)

\* event.segs.map(seg => seg.utf8 || '').join('')
RECURSIVE joinUtf8(_)
joinUtf8(segs) ==
    IF segs = <<>> THEN ""
    ELSE (IF "utf8" \in DOMAIN Head(segs) THEN Head(segs).utf8 ELSE "") \o joinUtf8(Tail(segs))

\* the event loop of parseJSON3
RECURSIVE json3Events(_, _)
json3Events(events, acc) ==
    IF events = <<>> THEN acc
    ELSE LET event == Head(events)
             text == trim(joinUtf8(event.segs))
         IN  json3Events(Tail(events),
                 IF "segs" \in DOMAIN event /\ "tStartMs" \in DOMAIN event
                    /\ text # "" /\ text # "\n"
                 THEN Append(acc, [text |-> replaceAll(text, "\n", " "),
                                   offset |-> event.tStartMs,
                                   duration |-> IF "dDurationMs" \in DOMAIN event
                                                THEN event.dDurationMs ELSE 0])
                 ELSE acc)

\* parseJSON3 of a file's content.  content.valid says whether JSON.parse accepts it;
\* content.value is the parsed document.  The result is [ok, value] or [ok, message].
parseJSON3(content) ==
    IF ~content.valid
    THEN [ok |-> FALSE, message |-> "Unexpected end of JSON input"]
    ELSE [ok |-> TRUE,
          value |-> json3Events(IF "events" \in DOMAIN content.value
                                THEN content.value.events ELSE <<>>, <<>>)]

\* the deduplication loop of getTranscript
RECURSIVE dedupe(_, _)
dedupe(items, deduped) ==
    IF items = <<>> THEN deduped
    ELSE LET item == Head(items)
         IN  dedupe(Tail(items),
                 IF deduped = <<>> \/ deduped[Len(deduped)].text # item.text
                 THEN Append(deduped, item)
                 ELSE deduped)

RECURSIVE fullTextOf(_)
fullTextOf(items) ==
    IF items = <<>> THEN ""
    ELSE "[" \o formatTimestamp(Head(items).offset \div 1000) \o "] " \o Head(items).text
         \o "\n" \o fullTextOf(Tail(items))

\* the same with the duration read from the first segment
prepareFromFirstSegment(items) ==
    [fullText |-> fullTextOf(items),
     totalDuration |-> IF Len(items) > 0
                       THEN (items[1].offset + items[1].duration) \div 1000
                       ELSE 0]

prepareTranscriptForAnalysis(items) ==
    [fullText |-> fullTextOf(items),
     totalDuration |-> IF Len(items) > 0
                       THEN (items[Len(items)].offset + items[Len(items)].duration) \div 1000
                       ELSE 0]

----------------------------------------------------------------------------
(* Requests *)

Variants == {"server", "api1", "api2", "part0"}

RECURSIVE Fill(_)
Fill(n) == IF n = 0 THEN "" ELSE "a" \o Fill(n - 1)

replaceAt(s, p, c) == Sub(s, 1, p - 1) \o c \o Sub(s, p + 1, Len(s))

BadChars == {"!", " ", ".", "\n"}

\* n characters drawn from every class of the identifier alphabet
Mixed(n) == Sub("Zb9_-zA0-_aB7yC", 1, n)

\* the videoId strings a request may carry: every length up to MaxIdLen, of identifier
\* characters only or with one character outside the identifier alphabet
VideoIdStrings ==
    {Fill(n) : n \in 0..MaxIdLen}
    \cup {Mixed(n) : n \in 0..MaxIdLen}
    \cup UNION {{replaceAt(Mixed(n), p, c) : p \in {1, (n + 1) \div 2, n}, c \in BadChars}
                : n \in 1..MaxIdLen}

\* req.body.videoId: absent, or a string
VideoIds == {None} \cup {Some(s) : s \in VideoIdStrings}

\* req.body: the object the JSON body parsed to, or no body (undefined with Express 5, null on
\* the serverless platform; Express 4 puts {} there)
Bodies == {"object", "absent"}

\* const { videoId } = req.body: the outcomes, "threw" for the TypeError of destructuring
\* undefined or null
destructureBody(v, body) ==
    IF body = "object" THEN {"ok"}
    ELSE IF v = "server" THEN {"ok", "threw"}
    ELSE {"threw"}

\* server.js routes only POST to the handler; the other handlers see every method
Methods(v) == IF v = "server" THEN {"POST"} ELSE {"POST", "GET", "OPTIONS"}

IdChars == Lower \cup Upper \cup Digits \cup {"_", "-"}
IdLen == 11

\* the position after k characters of [a-zA-Z0-9_-] from position i, 0 when they are not there
RECURSIVE matchIdChars(_, _, _)
matchIdChars(s, i, k) ==
    IF k = 0 THEN i
    ELSE IF CharAt(s, i) \notin IdChars THEN 0
    ELSE matchIdChars(s, i + 1, k - 1)

\* the same test without the end anchor: /^[a-zA-Z0-9_-]{11}/
videoIdTestNoEnd(s) == matchIdChars(s, 1, IdLen) # 0

\* /^[a-zA-Z0-9_-]{11}$/.test(videoId)
videoIdTest(s) == matchIdChars(s, 1, IdLen) = Len(s) + 1

\* !videoId
missingVideoId(videoId) == videoId = None \/ videoId[1] = ""

----------------------------------------------------------------------------
(* The handlers' catch blocks *)

GenericFailure == "Failed to analyze video. Please try again."
NoCaptionsFixed == "This video does not have captions available."

\* server.js
catch_server(message) ==
    IF includes(message, "captions") \/ includes(message, "No captions")
    THEN [status |-> 400, body |-> [error |-> message]]
    ELSE [status |-> 500, body |-> [error |-> IF message # "" THEN message ELSE GenericFailure]]

\* api/analyze.js, both handlers
catch_api(message) ==
    IF includes(message, "captions") \/ includes(message, "transcript")
       \/ includes(message, "No captions")
    THEN [status |-> 400, body |-> [error |-> NoCaptionsFixed]]
    ELSE IF includes(message, "not found") \/ includes(message, "unavailable")
    THEN [status |-> 404, body |-> [error |-> message]]
    ELSE [status |-> 500, body |-> [error |-> GenericFailure]]

\* unnamed/part_000
catch_part0(message) ==
    IF includes(message, "captions") \/ includes(message, "transcript")
    THEN [status |-> 400, body |-> [error |-> message]]
    ELSE IF includes(message, "not found") \/ includes(message, "unavailable")
    THEN [status |-> 404, body |-> [error |-> message]]
    ELSE [status |-> 500, body |-> [error |-> GenericFailure]]

handlerCatch(v, message) ==
    CASE v = "server" -> catch_server(message)
      [] v = "part0" -> catch_part0(message)
      [] OTHER -> catch_api(message)

----------------------------------------------------------------------------
(* The LLM reply and analyzeWithClaude *)

\* JSON documents the reply may embed, with the value JSON.parse gives for each
JsonDocs ==
    {[text |-> "{\"summary\":\"s\",\"topics\":[]}",
      value |-> [summary |-> "s", topics |-> <<>>]],
     [text |-> "{\"summary\":\"s\",\"topics\":[{\"title\":\"t\",\"timestamp\":75}]}",
      value |-> [summary |-> "s", topics |-> <<[title |-> "t", timestamp |-> 75]>>]],
     [text |-> "{\"topics\":[{\"timestamp\":3661,\"timestampFormatted\":\"9:99\"},{\"timestamp\":0}]}",
      value |-> [topics |-> <<[timestamp |-> 3661, timestampFormatted |-> "9:99"],
                              [timestamp |-> 0]>>]],
     [text |-> "{\"summary\":\"s\"}",
      value |-> [summary |-> "s"]],
     [text |-> "{\"tldr\":\"t\",\"chapters\":[{\"timestamp\":75,\"title\":\"c\"}]}",
      value |-> [tldr |-> "t", chapters |-> <<[timestamp |-> 75, title |-> "c"]>>]],
     [text |-> "{\"tldr\":\"t\",\"topics\":[],\"chapters\":[{\"timestamp\":3600,\"timestampFormatted\":\"x\"}]}",
      value |-> [tldr |-> "t", topics |-> <<>>,
                 chapters |-> <<[timestamp |-> 3600, timestampFormatted |-> "x"]>>]],
     [text |-> "{\"tldr\":\"t\",\"keyTopics\":[\"k\"]}",
      value |-> [tldr |-> "t", keyTopics |-> <<"k">>]]}

\* brace-delimited texts that are not JSON, with the character JSON.parse stops at and its
\* 0-based position
BrokenObjects ==
    {[text |-> "{\"a\":oops}", token |-> "o", at |-> 5],
     [text |-> "{\"a\":captions}", token |-> "c", at |-> 5],
     [text |-> "{\"a\":a transcript}", token |-> "a", at |-> 5],
     [text |-> "{\"a\":x not found}", token |-> "x", at |-> 5],
     [text |-> "{\"a\":x captions are off}", token |-> "x", at |-> 5],
     [text |-> "{\"a\":x, there are no captions}", token |-> "x", at |-> 5]}

ReplyPrefixes == {"", "Here is the analysis: "}
ReplySuffixes == {"", " Hope this helps.", " }"}

\* message.content[0].text
ReplyTexts ==
    {pre \o obj \o suf : pre \in ReplyPrefixes,
                         obj \in {d.text : d \in JsonDocs} \cup {b.text : b \in BrokenObjects},
                         suf \in ReplySuffixes}
    \cup {"", "I cannot analyze these captions."}

\* the ways anthropic.messages.create rejects
LlmFailures == {"Connection error.", "529 Overloaded"}

\* the two message formats of the runtime's JSON.parse SyntaxError for an unexpected token:
\* with the position only, or quoting the source text
JsonEngines == {"position", "source"}

LlmOutcomes ==
    {[kind |-> "throw", message |-> m] : m \in LlmFailures}
    \cup {[kind |-> "reply", text |-> t, engine |-> e] : t \in ReplyTexts, e \in JsonEngines}

\* responseText.match(/\{[\s\S]*\}/): from the first "{" to the last "}" after it
jsonMatch(responseText) ==
    LET i == IndexFrom(responseText, "{", 1)
        j == LastIndexUpTo(responseText, "}", Len(responseText))
    IN  IF i # 0 /\ j > i THEN Some(SubSeq(responseText, i, j)) ELSE None

startsWith(s, t) == Sub(s, 1, Len(t)) = t

\* the source-quoting format quotes a source shorter than 21 characters whole, and of a longer
\* one the 10 characters either side of the token
ContextChars == 10

unexpectedToken(text, token, at, engine) ==
    IF engine = "position"
    THEN "Unexpected token " \o token \o " in JSON at position " \o ToString(at)
    ELSE IF Len(text) < 2 * ContextChars + 1
    THEN "Unexpected token '" \o token \o "', \"" \o text \o "\" is not valid JSON"
    ELSE IF at < ContextChars
    THEN "Unexpected token '" \o token \o "', \"" \o Sub(text, 1, at + ContextChars)
         \o "\"... is not valid JSON"
    ELSE "Unexpected token '" \o token \o "', ...\""
         \o Sub(text, at + 1 - ContextChars, at + ContextChars) \o "\"... is not valid JSON"

\* JSON.parse of a text: [ok, value], or [ok, message] for a SyntaxError; a text that is
\* neither a document nor broken is a document followed by more text
JSONparse(text, engine) ==
    IF \E d \in JsonDocs : d.text = text
    THEN [ok |-> TRUE, value |-> (CHOOSE d \in JsonDocs : d.text = text).value]
    ELSE IF \E b \in BrokenObjects : startsWith(text, b.text)
    THEN LET b == CHOOSE b \in BrokenObjects : startsWith(text, b.text)
         IN  [ok |-> FALSE, message |-> unexpectedToken(text, b.token, b.at, engine)]
    ELSE LET d == CHOOSE d \in JsonDocs : startsWith(text, d.text)
         IN  [ok |-> FALSE,
              message |-> IF engine = "position"
                          THEN "Unexpected token } in JSON at position "
                               \o ToString(Len(d.text) + 1)
                          ELSE "Unexpected non-whitespace character after JSON at position "
                               \o ToString(Len(d.text) + 1)]

\* formatTimestamp of a possibly absent number
formatTimestampOf(entry) ==
    IF "timestamp" \in DOMAIN entry THEN formatTimestamp(entry.timestamp) ELSE "NaN:NaN"

\* the spread written last: { timestampFormatted: formatTimestamp(entry.timestamp), ...entry }
withTimestampFormattedFirst(entry) ==
    entry @@ ("timestampFormatted" :> formatTimestampOf(entry))

\* { ...entry, timestampFormatted: formatTimestamp(entry.timestamp) }
withTimestampFormatted(entry) ==
    ("timestampFormatted" :> formatTimestampOf(entry)) @@ entry

mapTimestamps(entries) == [i \in 1..Len(entries) |-> withTimestampFormatted(entries[i])]

\* analyzeWithClaude of server.js, of the first handler of api/analyze.js and of
\* unnamed/part_000, from the LLM call's outcome on: [ok, value] or [ok, message]
analyzeWithClaude_topics(out) ==
    IF out.kind = "throw" THEN [ok |-> FALSE, message |-> out.message]
    ELSE LET m == jsonMatch(out.text)
             parsed == JSONparse(m[1], out.engine)
         IN  IF m = None THEN [ok |-> FALSE, message |-> "Failed to parse AI response"]
             ELSE IF ~parsed.ok THEN parsed
             ELSE IF "topics" \notin DOMAIN parsed.value
             THEN [ok |-> FALSE,
                   message |-> "Cannot read properties of undefined (reading 'map')"]
             ELSE [ok |-> TRUE,
                   value |-> ("topics" :> mapTimestamps(parsed.value.topics)) @@ parsed.value]

\* analyzeWithClaude of the second handler of api/analyze.js
analyzeWithClaude_chapters(out) ==
    IF out.kind = "throw" THEN [ok |-> FALSE, message |-> out.message]
    ELSE LET m == jsonMatch(out.text)
             parsed == JSONparse(m[1], out.engine)
         IN  IF m = None THEN [ok |-> FALSE, message |-> "Failed to parse AI response"]
             ELSE IF ~parsed.ok THEN parsed
             ELSE IF "chapters" \in DOMAIN parsed.value
             THEN [ok |-> TRUE,
                   value |-> ("chapters" :> mapTimestamps(parsed.value.chapters))
                             @@ parsed.value]
             ELSE [ok |-> TRUE, value |-> parsed.value]

analyzeWithClaude(v, out) ==
    IF v = "api2" THEN analyzeWithClaude_chapters(out) ELSE analyzeWithClaude_topics(out)

\* handler v from the LLM call's outcome on: the analysis, or the catch block's response to
\* the error analyzeWithClaude threw
analyzeOrCatch(v, out) ==
    LET analysis == analyzeWithClaude(v, out)
    IN  IF analysis.ok THEN analysis
        ELSE [ok |-> FALSE, message |-> analysis.message,
              logged |-> "Analysis error: " \o analysis.message,
              response |-> handlerCatch(v, analysis.message)]

\* how the LLM call ended: the API rejected ("error"), the reply holds no brace-delimited
\* text ("no-json"), the extracted text is not JSON ("invalid-json"), or it parsed ("json")
replyKind(out) ==
    IF out.kind = "throw" THEN "error"
    ELSE IF jsonMatch(out.text) = None THEN "no-json"
    ELSE IF ~JSONparse(jsonMatch(out.text)[1], out.engine).ok THEN "invalid-json"
    ELSE "json"

\* the document JSON.parse gave, when it gave one
replyDoc(out) ==
    IF replyKind(out) = "json" THEN Some(JSONparse(jsonMatch(out.text)[1], out.engine).value)
    ELSE None

\* every outcome of the LLM call with what each handler makes of it
LlmResults ==
    {[out |-> o, kind |-> replyKind(o), doc |-> replyDoc(o),
      server |-> analyzeOrCatch("server", o), api1 |-> analyzeOrCatch("api1", o),
      api2 |-> analyzeOrCatch("api2", o), part0 |-> analyzeOrCatch("part0", o)]
     : o \in LlmOutcomes}

\* the fields of object o among names: what res.json sends of them
pick(o, names) == [f \in names \cap DOMAIN o |-> o[f]]

\* the body of the handler's 200 response
successBody(v, videoId, m, totalDuration, analysis) ==
    LET duration == formatTimestamp(IF m.duration # 0 THEN m.duration ELSE totalDuration)
    IN  IF v = "api2"
        THEN [videoId |-> videoId, title |-> m.title, duration |-> duration]
             @@ pick(analysis, {"tldr", "keyTopics", "chapters", "keyTakeaways", "shouldWatch"})
        ELSE [videoId |-> videoId, title |-> m.title, duration |-> duration]
             @@ pick(analysis, {"summary", "topics"})

----------------------------------------------------------------------------
(* Outcomes of the external collaborators *)

SeqsUpTo(S, n) == UNION {[1..k -> S] : k \in 0..n}

\* execSync failures: a non-zero exit, and the timeout
ExecFailures == {"Command failed: yt-dlp", "spawnSync /bin/sh ETIMEDOUT"}
ExecTimeout == "spawnSync /bin/sh ETIMEDOUT"

\* the info objects yt-dlp -j prints
VideoInfos == {[title |-> "Title", duration |-> 212], [title |-> "Title"], <<>>}

MetaOutcomes ==
    {[result |-> "ok", info |-> i] : i \in VideoInfos}
    \cup {[result |-> "error", message |-> "Command failed: yt-dlp"],
          [result |-> "timeout", message |-> ExecTimeout],
          [result |-> "exception", message |-> "Unexpected end of JSON input"]}

VttCueTimes == {"00:00:00.000 --> 00:00:02.000", "00:01:15.500 --> 00:01:17.000 align:start"}
VttCueBodies == {"", "a\n", "b\n", "<c>a</c> &amp; b\n"}
VttCues == {t \o "\n" \o b \o "\n" : t \in VttCueTimes, b \in VttCueBodies}

RECURSIVE concat(_)
concat(strings) == IF strings = <<>> THEN "" ELSE Head(strings) \o concat(Tail(strings))

\* the subtitle files yt-dlp may write in vtt format
VttContents == {"WEBVTT\n\n" \o concat(cues) : cues \in SeqsUpTo(VttCues, MaxCues)}

\* a subtitle download: the exit of the subprocess and whether it wrote the expected file
VttRuns ==
    {[ok |-> TRUE, written |-> TRUE, content |-> c] : c \in VttContents}
    \cup {[ok |-> TRUE, written |-> FALSE]}
    \cup {[ok |-> FALSE, written |-> w, message |-> m] : w \in BOOLEAN, m \in ExecFailures}

Json3EventSamples ==
    {[segs |-> <<[utf8 |-> "a"]>>, tStartMs |-> 0, dDurationMs |-> 500],
     [segs |-> <<[utf8 |-> "a"], [utf8 |-> "b"]>>, tStartMs |-> 1000],
     [segs |-> <<[utf8 |-> "a\nb"], [acAsrConf |-> 0]>>, tStartMs |-> 1000, dDurationMs |-> 500],
     [segs |-> <<[utf8 |-> "\n"]>>, tStartMs |-> 2000, dDurationMs |-> 500],
     [tStartMs |-> 0, dDurationMs |-> 500],
     [segs |-> <<[utf8 |-> "b"]>>]}

\* caption documents in json3 format: not JSON at all, without events, or with events
Json3Contents ==
    {[valid |-> FALSE], [valid |-> TRUE, value |-> [wireMagic |-> "pb3"]]}
    \cup {[valid |-> TRUE, value |-> [events |-> es]] : es \in SeqsUpTo(Json3EventSamples, MaxEvents)}

Json3Runs ==
    {[ok |-> TRUE, written |-> TRUE, content |-> c] : c \in Json3Contents}
    \cup {[ok |-> TRUE, written |-> FALSE]}
    \cup {[ok |-> FALSE, written |-> w, message |-> m] : w \in BOOLEAN, m \in ExecFailures}

\* Date.now() at the start of getTranscript
Now == 0

tmpFile(videoId) == "/tmp/yt-" \o videoId \o "-" \o ToString(Now)

\* the record of one external call: how it ended ("ok", "error", "timeout", "exception" when
\* the code reading its output threw, "not-found" when the lookup returned no video) and the
\* caption segments it yielded
Call(name, result, yield) == [name |-> name, result |-> result, yield |-> yield]

execResult(run) ==
    IF run.ok THEN "ok" ELSE IF run.message = ExecTimeout THEN "timeout" ELSE "error"

----------------------------------------------------------------------------
(* The request handler: entry and validation *)

NoTranscriptMessage ==
    "No transcript available for this video. The video may not have captions."

\* the validation of the handlers: the 400 response, or None when the videoId passes
validate(videoId) ==
    IF missingVideoId(videoId)
    THEN Some([status |-> 400, body |-> [error |-> "Video ID is required"]])
    ELSE IF ~videoIdTest(videoId[1])
    THEN Some([status |-> 400, body |-> [error |-> "Invalid video ID format"]])
    ELSE None

\* the first external call of a handler
FirstCall(v) ==
    CASE v = "server" -> "meta"
      [] v = "part0" -> "fetchPage"
      [] OTHER -> "getVideoInfo"

Respond(r) == resp' = Append(resp, r) /\ pc' = "done"

\* the handler's catch block, for an error thrown inside its try block
HandlerCatch(message) ==
    /\ Respond(handlerCatch(variant, message))
    /\ UNCHANGED <<transcript, prepared>>

\* a handler that analyzes whatever getTranscript returned
HandlerAfterTranscriptUnchecked(t) ==
    /\ transcript' = t
    /\ prepared' = prepareTranscriptForAnalysis(t)
    /\ pc' = "analyze"
    /\ resp' = resp

\* the handler from the return of getTranscript to the LLM call
HandlerAfterTranscript(t) ==
    /\ transcript' = t
    /\ IF Len(t) = 0
       THEN /\ Respond([status |-> 400, body |-> [error |-> NoTranscriptMessage]])
            /\ prepared' = prepared
       ELSE /\ prepared' = prepareTranscriptForAnalysis(t)
            /\ pc' = "analyze"
            /\ resp' = resp

\* a request arrives: the method checks, the read of req.body (outside the try block: an
\* exception there leaves the handler, pc = "threw") and the validation of videoId
HandlerEntry ==
    /\ pc = "idle"
    /\ \E m \in Methods(variant), b \in Bodies :
       \E id \in IF b = "object" THEN VideoIds ELSE {None} :
       \E d \in destructureBody(variant, b) :
         /\ req' = [method |-> m, body |-> b, videoId |-> id]
         /\ IF m = "OPTIONS" THEN Respond([status |-> 200, body |-> None])
            ELSE IF m # "POST"
            THEN Respond([status |-> 405, body |-> [error |-> "Method not allowed"]])
            ELSE IF d = "threw" THEN pc' = "threw" /\ resp' = resp
            ELSE IF validate(id) # None THEN Respond(validate(id)[1])
            ELSE pc' = FirstCall(variant) /\ resp' = resp
    /\ UNCHANGED <<variant, calls, files, logs, meta, track, transcript, prepared>>
    /\ UNCHANGED outsideHandler

----------------------------------------------------------------------------
(* server.js: getTranscript *)

NoCaptionsVideo == "No captions available for this video"

\* an outer catch block that rethrows what it caught
getTranscriptRethrow_server(logged, message) ==
    /\ logs' = logged \o <<"yt-dlp error: " \o message, "Analysis error: " \o message>>
    /\ HandlerCatch(message)

\* getTranscript's outer catch block: whatever was thrown becomes the fixed error,
\* which the handler's catch block answers
getTranscriptCatch_server(logged, message) ==
    /\ logs' = logged \o <<"yt-dlp error: " \o message, "Analysis error: " \o NoCaptionsVideo>>
    /\ HandlerCatch(NoCaptionsVideo)

\* a fetcher that tries json3 whatever vtt gave
needsJson3Always(parsed) == TRUE

\* "If vtt didn't work, try json3 format"
needsJson3(parsed) == Len(parsed) = 0

\* the metadata call
Server_meta ==
    /\ variant = "server" /\ pc = "meta"
    /\ \E out \in MetaOutcomes :
         /\ calls' = Append(calls, Call("yt-dlp -j", out.result, <<>>))
         /\ IF out.result = "ok"
            THEN /\ meta' = [title |-> IF "title" \in DOMAIN out.info
                                       THEN Some(out.info.title) ELSE None,
                             duration |-> IF "duration" \in DOMAIN out.info
                                          THEN out.info.duration ELSE 0]
                 /\ pc' = "vtt"
                 /\ UNCHANGED <<logs, resp, transcript, prepared>>
            ELSE /\ getTranscriptCatch_server(logs, out.message)
                 /\ UNCHANGED meta
    /\ UNCHANGED <<variant, req, files, track>>
    /\ UNCHANGED outsideHandler

\* the vtt strategy, and the return to the handler when it yields segments
Server_vtt ==
    /\ variant = "server" /\ pc = "vtt"
    /\ \E run \in VttRuns :
         LET expectedFile == tmpFile(req.videoId[1]) \o ".en.vtt"
             parsed == IF run.ok /\ run.written THEN parseVTT(run.content) ELSE <<>>
         IN  /\ calls' = Append(calls, Call("yt-dlp vtt", execResult(run), parsed))
             /\ files' = IF run.written /\ ~run.ok THEN files \cup {expectedFile} ELSE files
             /\ IF needsJson3(parsed)
                THEN /\ pc' = "json3"
                     /\ logs' = IF run.ok THEN logs
                                ELSE Append(logs, "vtt fetch error: " \o run.message)
                     /\ UNCHANGED <<resp, transcript, prepared>>
                ELSE /\ HandlerAfterTranscript(dedupe(parsed, <<>>))
                     /\ logs' = logs
    /\ UNCHANGED <<variant, req, meta, track>>
    /\ UNCHANGED outsideHandler

\* the json3 strategy, and the end of getTranscript
Server_json3 ==
    /\ variant = "server" /\ pc = "json3"
    /\ \E run \in Json3Runs :
         LET expectedFile == tmpFile(req.videoId[1]) \o ".en.json3"
             result == IF run.ok /\ run.written THEN parseJSON3(run.content)
                       ELSE [ok |-> TRUE, value |-> <<>>]
             parsed == IF result.ok THEN result.value ELSE <<>>
             logged == IF ~run.ok THEN Append(logs, "json3 fetch error: " \o run.message)
                       ELSE IF ~result.ok
                       THEN Append(logs, "json3 fetch error: " \o result.message)
                       ELSE logs
         IN  /\ calls' = Append(calls, Call("yt-dlp json3",
                                            IF run.ok /\ ~result.ok THEN "exception"
                                            ELSE execResult(run), parsed))
             /\ files' = IF run.written /\ (~run.ok \/ ~result.ok)
                         THEN files \cup {expectedFile} ELSE files
             /\ IF Len(parsed) = 0
                THEN getTranscriptCatch_server(logged, "No captions available")
                ELSE /\ HandlerAfterTranscript(dedupe(parsed, <<>>))
                     /\ logs' = logged
    /\ UNCHANGED <<variant, req, meta, track>>
    /\ UNCHANGED outsideHandler

----------------------------------------------------------------------------
(* api/analyze.js: getVideoInfo, shared by its two handlers *)

RECURSIVE digitsEnd(_, _)
digitsEnd(s, p) == IF CharAt(s, p) \in Digits THEN digitsEnd(s, p + 1) ELSE p

\* one optional group (?:(\d+)X)? of the duration pattern at position p
durationGroup(s, p, unit) ==
    LET e == digitsEnd(s, p)
    IN  IF e > p /\ CharAt(s, e) = unit
        THEN [value |-> parseIntDigits(s, p, e - p), next |-> e + 1]
        ELSE [value |-> 0, next |-> p]

\* duration.match(/PT(?:(\d+)H)?(?:(\d+)M)?(?:(\d+)S)?/)
parseDuration(duration) ==
    LET pt == IndexFrom(duration, "PT", 1)
        hours == durationGroup(duration, pt + 2, "H")
        minutes == durationGroup(duration, hours.next, "M")
        seconds == durationGroup(duration, minutes.next, "S")
    IN  IF pt = 0 THEN 0
        ELSE hours.value * 3600 + minutes.value * 60 + seconds.value

IsoDurations == {"PT3M32S", "PT1H1M1S", "P1D"}

\* the metadata endpoint: the fetch rejects, or the response body is one of these documents
InfoOutcomes ==
    {[kind |-> "reject", message |-> "fetch failed"]}
    \cup {[kind |-> "data", data |-> d] :
            d \in {[error |-> "quotaExceeded"], [items |-> <<>>]}
                  \cup {[items |-> <<[snippet |-> [title |-> "Title"],
                                     contentDetails |-> [duration |-> iso]]>>]
                        : iso \in IsoDurations}}

\* getVideoInfo from the fetch's outcome on: [ok, value] or [ok, message]
getVideoInfo(out) ==
    IF out.kind = "reject" THEN [ok |-> FALSE, message |-> out.message]
    ELSE IF "items" \notin DOMAIN out.data \/ Len(out.data.items) = 0
    THEN [ok |-> FALSE, message |-> "Video not found"]
    ELSE [ok |-> TRUE,
          value |-> [title |-> Some(out.data.items[1].snippet.title),
                     duration |-> parseDuration(out.data.items[1].contentDetails.duration)]]

Api_getVideoInfo ==
    /\ variant \in {"api1", "api2"} /\ pc = "getVideoInfo"
    /\ \E out \in InfoOutcomes :
         LET info == getVideoInfo(out)
         IN  /\ calls' = Append(calls, Call("videos.list",
                                            IF out.kind = "reject" THEN "error"
                                            ELSE IF info.ok THEN "ok" ELSE "not-found", <<>>))
             /\ IF info.ok
                THEN /\ meta' = info.value
                     /\ pc' = IF variant = "api1" THEN "listTranscripts" ELSE "ready"
                     /\ UNCHANGED <<logs, resp, transcript, prepared>>
                ELSE /\ HandlerCatch(info.message)
                     /\ logs' = Append(logs, "Analysis error: " \o info.message)
                     /\ UNCHANGED meta
    /\ UNCHANGED <<variant, req, files, track>>
    /\ UNCHANGED outsideHandler

\* getTranscript's catch block in both handlers of api/analyze.js
getTranscriptCatch_api(message) ==
    /\ logs' = logs \o <<"Transcript fetch error: " \o message,
                         "Analysis error: " \o NoCaptionsFixed>>
    /\ HandlerCatch(NoCaptionsFixed)

\* the library's rejections
LibraryFailures == {"Transcripts are disabled", "Video unavailable"}

\* the items a transcript library returns; start and duration are in seconds
ItemSamples ==
    {[text |-> "a", start |-> 0, duration |-> 2],
     [text |-> "a", start |-> 2, duration |-> 2],
     [text |-> "b", start |-> 75, duration |-> 3]}

----------------------------------------------------------------------------
(* api/analyze.js, first handler: getTranscript *)

LanguageSamples == {"en", "en-GB", "fr", "de"}

TrackLists == SeqsUpTo({[languageCode |-> l] : l \in LanguageSamples}, MaxTracks)

ListOutcomes ==
    {[kind |-> "reject", message |-> m] : m \in LibraryFailures}
    \cup {[kind |-> "list", transcripts |-> ts] : ts \in TrackLists}

\* the library's findTranscript: the first requested language code that some track has
RECURSIVE findTranscript(_, _)
findTranscript(tracks, codes) ==
    IF codes = <<>> THEN None
    ELSE LET hits == {i \in 1..Len(tracks) : tracks[i].languageCode = Head(codes)}
         IN  IF hits # {}
             THEN Some(tracks[CHOOSE i \in hits : \A j \in hits : i <= j])
             ELSE findTranscript(tracks, Tail(codes))

\* the choice of the transcript: English first, or else the first available
selectTranscript(available) ==
    LET found == findTranscript(available, <<"en", "en-US", "en-GB">>)
    IN  IF found # None THEN found
        ELSE IF Len(available) > 0 THEN Some(available[1])
        ELSE None

Api1_listTranscripts ==
    /\ variant = "api1" /\ pc = "listTranscripts"
    /\ \E out \in ListOutcomes :
         LET selected == IF out.kind = "reject" THEN None
                         ELSE selectTranscript(out.transcripts)
         IN  /\ calls' = Append(calls, Call("listTranscripts",
                                            IF out.kind = "reject" THEN "error" ELSE "ok", <<>>))
             /\ IF selected # None
                THEN /\ track' = selected
                     /\ pc' = "fetchTranscript"
                     /\ UNCHANGED <<logs, resp, transcript, prepared>>
                ELSE /\ getTranscriptCatch_api(IF out.kind = "reject" THEN out.message
                                               ELSE "No transcript available")
                     /\ track' = track
    /\ UNCHANGED <<variant, req, files, meta>>
    /\ UNCHANGED outsideHandler

FetchOutcomes ==
    {[kind |-> "reject", message |-> m] : m \in LibraryFailures}
    \cup {[kind |-> "data", data |-> d] : d \in SeqsUpTo(ItemSamples, MaxItems)}

\* data.map(item => ({ text, offset: item.start * 1000, duration: item.duration * 1000 }))
mapItems_api1(data) ==
    [i \in 1..Len(data) |-> [text |-> data[i].text, offset |-> data[i].start * 1000,
                             duration |-> data[i].duration * 1000]]

Api1_fetch ==
    /\ variant = "api1" /\ pc = "fetchTranscript"
    /\ \E out \in FetchOutcomes :
         IF out.kind = "reject"
         THEN /\ calls' = Append(calls, Call("transcript.fetch", "error", <<>>))
              /\ getTranscriptCatch_api(out.message)
         ELSE /\ calls' = Append(calls, Call("transcript.fetch", "ok", mapItems_api1(out.data)))
              /\ HandlerAfterTranscript(mapItems_api1(out.data))
              /\ logs' = logs
    /\ UNCHANGED <<variant, req, files, meta, track>>
    /\ UNCHANGED outsideHandler

----------------------------------------------------------------------------
(* api/analyze.js, second handler: getTranscript *)

Api2_ready ==
    /\ variant = "api2" /\ pc = "ready"
    /\ \E out \in {[kind |-> "ok"]} \cup {[kind |-> "reject", message |-> m] : m \in LibraryFailures} :
         IF out.kind = "reject"
         THEN /\ calls' = Append(calls, Call("client.ready", "error", <<>>))
              /\ getTranscriptCatch_api(out.message)
         ELSE /\ calls' = Append(calls, Call("client.ready", "ok", <<>>))
              /\ pc' = "getTranscript"
              /\ UNCHANGED <<logs, resp, transcript, prepared>>
    /\ UNCHANGED <<variant, req, files, meta, track>>
    /\ UNCHANGED outsideHandler

\* what client.getTranscript resolves to: nothing, or items whose start and duration may be absent
ClientOutcomes ==
    {[kind |-> "reject", message |-> m] : m \in LibraryFailures}
    \cup {[kind |-> "value", transcript |-> None]}
    \cup {[kind |-> "value", transcript |-> Some(d)]
          : d \in SeqsUpTo(ItemSamples \cup {[text |-> "b"]}, MaxItems)}

\* transcript.map(item => ({ text, offset: (item.start || 0) * 1000, ... }))
mapItems_api2(data) ==
    [i \in 1..Len(data) |->
        [text |-> data[i].text,
         offset |-> (IF "start" \in DOMAIN data[i] THEN data[i].start ELSE 0) * 1000,
         duration |-> (IF "duration" \in DOMAIN data[i] THEN data[i].duration ELSE 0) * 1000]]

Api2_getTranscript ==
    /\ variant = "api2" /\ pc = "getTranscript"
    /\ \E out \in ClientOutcomes :
         IF out.kind = "reject"
         THEN /\ calls' = Append(calls, Call("client.getTranscript", "error", <<>>))
              /\ getTranscriptCatch_api(out.message)
         ELSE IF out.transcript = None \/ Len(out.transcript[1]) = 0
         THEN /\ calls' = Append(calls, Call("client.getTranscript", "ok", <<>>))
              /\ getTranscriptCatch_api("No transcript available")
         ELSE /\ calls' = Append(calls, Call("client.getTranscript", "ok",
                                             mapItems_api2(out.transcript[1])))
              /\ HandlerAfterTranscript(mapItems_api2(out.transcript[1]))
              /\ logs' = logs
    /\ UNCHANGED <<variant, req, files, meta, track>>
    /\ UNCHANGED outsideHandler

----------------------------------------------------------------------------
(* unnamed/part_000: getTranscript *)

FetchFailedGeneric ==
    "Failed to fetch video transcript. The video may be private or have captions disabled."

\* the caption tracks a video page may list
TrackSamples ==
    {[languageCode |-> "en", vssId |-> ".en", baseUrl |-> "https://c/en"],
     [languageCode |-> "fr", vssId |-> ".fr", baseUrl |-> "https://c/fr"],
     [languageCode |-> "en-GB", vssId |-> ".en-GB", baseUrl |-> "https://c/en-GB"],
     [languageCode |-> "de", baseUrl |-> "https://c/de"],
     [languageCode |-> "en", vssId |-> "a.en"]}

\* what the three patterns find in the page: the title, the length and the captionTracks text
\* (absent, not JSON, or a list of tracks)
Pages ==
    {[title |-> t[1], lengthSeconds |-> t[2], captionTracks |-> c] :
        t \in {<<None, None>>, <<Some("Q\\u0026A"), Some("212")>>},
        c \in {None, Some([valid |-> FALSE])}
              \cup {Some([valid |-> TRUE, tracks |-> ts]) : ts \in SeqsUpTo(TrackSamples, MaxTracks)}}

PageOutcomes ==
    {[kind |-> "reject", message |-> "fetch failed"]} \cup {[kind |-> "html", html |-> h] : h \in Pages}

\* the index of the first track with languageCode 'en' or a vssId that includes '.en', 0 if none
RECURSIVE firstEnglishTrack(_, _)
firstEnglishTrack(captionTracks, i) ==
    IF i > Len(captionTracks) THEN 0
    ELSE IF captionTracks[i].languageCode = "en"
            \/ ("vssId" \in DOMAIN captionTracks[i] /\ includes(captionTracks[i].vssId, ".en"))
    THEN i
    ELSE firstEnglishTrack(captionTracks, i + 1)

baseUrlOf(t) == IF "baseUrl" \in DOMAIN t THEN Some(t.baseUrl) ELSE None

\* the choice of captionUrl among a non-empty list of tracks
selectCaptionUrl(captionTracks) ==
    LET i == firstEnglishTrack(captionTracks, 1)
        preferred == IF i # 0 THEN baseUrlOf(captionTracks[i]) ELSE None
    IN  IF preferred = None THEN baseUrlOf(captionTracks[1]) ELSE preferred

\* the page part of getTranscript: [ok, title, duration, captionUrl] or [ok, message]
readPage(html) ==
    IF html.captionTracks = None
    THEN [ok |-> FALSE, message |-> "No captions available for this video"]
    ELSE IF ~html.captionTracks[1].valid
    THEN [ok |-> FALSE, message |-> "Failed to parse caption tracks"]
    ELSE IF Len(html.captionTracks[1].tracks) = 0
    THEN [ok |-> FALSE, message |-> "No caption tracks found"]
    ELSE IF selectCaptionUrl(html.captionTracks[1].tracks) = None
    THEN [ok |-> FALSE, message |-> "No usable caption URL found"]
    ELSE [ok |-> TRUE,
          title |-> IF html.title = None THEN None
                    ELSE Some(replaceAll(html.title[1], "\\u0026", "&")),
          duration |-> IF html.lengthSeconds = None THEN 0
                       ELSE parseIntDigits(html.lengthSeconds[1], 1, Len(html.lengthSeconds[1])),
          captionUrl |-> selectCaptionUrl(html.captionTracks[1].tracks)]

\* the message getTranscript's catch block throws for what it caught
rethrown_part0(message) ==
    IF includes(message, "No captions") \/ includes(message, "No caption")
       \/ includes(message, "No transcript")
    THEN NoCaptionsFixed
    ELSE FetchFailedGeneric

getTranscriptCatch_part0(message) ==
    /\ logs' = logs \o <<"Transcript fetch error: " \o message,
                         "Analysis error: " \o rethrown_part0(message)>>
    /\ HandlerCatch(rethrown_part0(message))

Part0_fetchPage ==
    /\ variant = "part0" /\ pc = "fetchPage"
    /\ \E out \in PageOutcomes :
         LET page == IF out.kind = "reject" THEN [ok |-> FALSE, message |-> out.message]
                     ELSE readPage(out.html)
         IN  /\ calls' = Append(calls, Call("fetch page",
                                            IF out.kind = "reject" THEN "error" ELSE "ok", <<>>))
             /\ IF page.ok
                THEN /\ meta' = [title |-> page.title, duration |-> page.duration]
                     /\ track' = page.captionUrl
                     /\ pc' = "fetchCaptions"
                     /\ UNCHANGED <<logs, resp, transcript, prepared>>
                ELSE /\ getTranscriptCatch_part0(page.message)
                     /\ UNCHANGED <<meta, track>>
    /\ UNCHANGED <<variant, req, files>>
    /\ UNCHANGED outsideHandler

\* the event loop of getTranscript
RECURSIVE captionEvents(_, _)
captionEvents(events, acc) ==
    IF events = <<>> THEN acc
    ELSE LET event == Head(events)
             text == replaceAll(trim(joinUtf8(event.segs)), "\n", " ")
         IN  captionEvents(Tail(events),
                 IF "segs" \in DOMAIN event /\ "tStartMs" \in DOMAIN event /\ text # ""
                 THEN Append(acc, [text |-> text,
                                   offset |-> event.tStartMs,
                                   duration |-> IF "dDurationMs" \in DOMAIN event
                                                THEN event.dDurationMs ELSE 0])
                 ELSE acc)

\* the caption part of getTranscript, from the parsed caption document on
readCaptions(captionData) ==
    IF "events" \notin DOMAIN captionData
    THEN [ok |-> FALSE, message |-> "No caption events found"]
    ELSE IF Len(captionEvents(captionData.events, <<>>)) = 0
    THEN [ok |-> FALSE, message |-> "No transcript content found"]
    ELSE [ok |-> TRUE, value |-> captionEvents(captionData.events, <<>>)]

CaptionOutcomes ==
    {[kind |-> "reject", message |-> "fetch failed"]}
    \cup {[kind |-> "body", content |-> c] : c \in Json3Contents}

Part0_fetchCaptions ==
    /\ variant = "part0" /\ pc = "fetchCaptions"
    /\ \E out \in CaptionOutcomes :
         LET captions == IF out.kind = "reject" THEN [ok |-> FALSE, message |-> out.message]
                         ELSE IF ~out.content.valid
                         THEN [ok |-> FALSE, message |-> "Unexpected token < in JSON at position 0"]
                         ELSE readCaptions(out.content.value)
         IN  /\ calls' = Append(calls, Call("fetch captions",
                                            IF out.kind = "reject" THEN "error"
                                            ELSE IF ~out.content.valid THEN "exception"
                                            ELSE "ok",
                                            IF captions.ok THEN captions.value ELSE <<>>))
             /\ IF captions.ok
                THEN HandlerAfterTranscript(captions.value) /\ logs' = logs
                ELSE getTranscriptCatch_part0(captions.message)
    /\ UNCHANGED <<variant, req, files, meta, track>>
    /\ UNCHANGED outsideHandler

----------------------------------------------------------------------------
(* The LLM call and the rest of the handler *)

Analyze ==
    /\ pc = "analyze"
    /\ \E r \in LlmResults :
         LET analysis == r[variant]
         IN  /\ calls' = Append(calls, [name |-> "llm", result |-> r.kind, yield |-> <<>>,
                                        doc |-> r.doc])
             /\ IF analysis.ok
                THEN /\ Respond([status |-> 200,
                                 body |-> successBody(variant, req.videoId[1], meta,
                                                      prepared.totalDuration, analysis.value)])
                     /\ logs' = logs
                ELSE /\ Respond(analysis.response)
                     /\ logs' = Append(logs, analysis.logged)
    /\ UNCHANGED <<variant, req, files, meta, track, transcript, prepared>>
    /\ UNCHANGED outsideHandler

----------------------------------------------------------------------------

Init ==
    /\ variant \in Variants
    /\ pc = "idle"
    /\ req = None
    /\ calls = <<>>
    /\ files = {}
    /\ logs = <<>>
    /\ meta = [title |-> None, duration |-> 0]
    /\ track = None
    /\ transcript = <<>>
    /\ prepared = [fullText |-> "", totalDuration |-> 0]
    /\ resp = <<>>
    /\ FnIdle /\ LoopIdle /\ PageIdle

Next ==
    \/ HandlerEntry
    \/ Server_meta
    \/ Server_vtt
    \/ Server_json3
    \/ Api_getVideoInfo
    \/ Api1_listTranscripts
    \/ Api1_fetch
    \/ Api2_ready
    \/ Api2_getTranscript
    \/ Part0_fetchPage
    \/ Part0_fetchCaptions
    \/ Analyze

Spec == Init /\ [][Next]_vars

----------------------------------------------------------------------------
(* Properties *)

\* the request is a POST that reached the validation of videoId
Posted == pc \notin {"idle", "threw"} /\ req.method = "POST"

\* videoId is missing, has a length other than 11, or holds a character outside [A-Za-z0-9_-]
IllFormedId ==
    \/ req.videoId = None
    \/ Len(req.videoId[1]) # 11
    \/ \E i \in 1..Len(req.videoId[1]) : CharAt(req.videoId[1], i) \notin IdChars

\* the request was answered 400 by the validation step
ValidationRejected ==
    /\ pc = "done" /\ Len(resp) = 1 /\ resp[1].status = 400
    /\ resp[1].body.error \in {"Video ID is required", "Invalid video ID format"}

\* the request was answered 400
Answered400 == Len(resp) >= 1 /\ resp[1].status = 400

\* the names of the two subtitle download strategies of server.js
Strategies == {"yt-dlp vtt", "yt-dlp json3"}

LastCall == calls[Len(calls)]

C2_NotFoundIs404 ==
    (/\ pc = "done" /\ Len(calls) = 1
     /\ \/ calls[1].name = "videos.list" /\ calls[1].result = "not-found"
        \/ calls[1].name = "yt-dlp -j" /\ calls[1].result = "error")
    => resp = <<[status |-> 404, body |-> resp[1].body]>>

\* every strategy of server.js getTranscript was attempted and none yielded a segment
AllStrategiesEmpty ==
    /\ variant = "server" /\ Len(calls) >= 3
    /\ calls[2].name = "yt-dlp vtt" /\ calls[2].yield = <<>>
    /\ calls[3].name = "yt-dlp json3" /\ calls[3].yield = <<>>

\* C3: in server.js, when the vtt download and then the json3 download both fail or yield an
\* empty transcript, getTranscript fails with exactly one error carrying the message
\* 'No captions available for this video', whatever the strategies' failure messages were,
\* and the handler answers 400 with that message.
C3_ExhaustedStrategiesAnswer400 ==
    AllStrategiesEmpty =>
        /\ pc = "done" /\ Len(calls) = 3
        /\ resp = <<[status |-> 400,
                     body |-> [error |-> "No captions available for this video"]]>>
        /\ logs[Len(logs)] = "Analysis error: No captions available for this video"
        /\ \A i \in 1..(Len(logs) - 1) : Sub(logs[i], 1, 15) # "Analysis error:"

\* C3 witness: the vtt download timed out, the json3 file was not JSON, and the request was
\* answered 400
C3_Witness ==
    /\ AllStrategiesEmpty
    /\ calls[2].result = "timeout" /\ calls[3].result = "exception"
    /\ Answered400

\* C4: in every handler variant, when the LLM reply contains no extractable JSON object or
\* the extracted text fails to parse as JSON, the request is answered with status 500,
\* whatever the text of the reply or of the error message
C4_UnparseableReplyIs500 ==
    (/\ pc = "done" /\ Len(calls) > 0 /\ LastCall.name = "llm"
     /\ LastCall.result \in {"no-json", "invalid-json"})
    => resp[1].status = 500

C6_OneLlmCallAfterTranscript ==
    /\ Cardinality({i \in 1..Len(calls) : calls[i].name = "llm"}) <= 1
    /\ \A i \in 1..Len(calls) :
           calls[i].name = "llm" =>
               /\ transcript # <<>>
               /\ \E j \in 1..(i - 1) : calls[j].yield # <<>>

\* C6 witness: the one LLM call returned a reply that did not parse and the request ended
C6_Witness ==
    /\ pc = "done" /\ variant = "api1"
    /\ Cardinality({i \in 1..Len(calls) : calls[i].name = "llm"}) = 1
    /\ LastCall.name = "llm" /\ LastCall.result = "invalid-json"

\* the top-level field analyzeWithClaude post-processes in each variant
RequiredField == IF variant = "api2" THEN "chapters" ELSE "topics"

\* C7: when the parsed LLM reply omits the required top-level field (topics, or chapters in
\* the extended variant), the field is defaulted to an empty container and the request
\* completes with status 200
C7_MissingFieldDefaulted ==
    (/\ pc = "done" /\ Len(calls) > 0 /\ LastCall.name = "llm"
     /\ LastCall.result = "json" /\ RequiredField \notin DOMAIN LastCall.doc[1])
    => /\ resp[1].status = 200
       /\ RequiredField \in DOMAIN resp[1].body
       /\ resp[1].body[RequiredField] = <<>>

\* C8: in every 200 response of a POST, every element of topics (of chapters in the extended
\* variant) that has a timestamp carries a timestampFormatted equal to formatTimestamp of
\* that timestamp.
C8_TimestampFormattedMatches ==
    (Posted /\ pc = "done" /\ resp[1].status = 200 /\ RequiredField \in DOMAIN resp[1].body)
    => \A i \in 1..Len(resp[1].body[RequiredField]) :
           LET entry == resp[1].body[RequiredField][i]
           IN  "timestamp" \in DOMAIN entry =>
                   /\ "timestampFormatted" \in DOMAIN entry
                   /\ entry.timestampFormatted = formatTimestamp(entry.timestamp)

\* C8 witness: a 200 response whose first topic, at 3661 seconds, came from a reply that
\* supplied its own timestampFormatted
C8_Witness ==
    /\ Posted /\ pc = "done" /\ resp[1].status = 200
    /\ "topics" \in DOMAIN resp[1].body /\ Len(resp[1].body.topics) = 2
    /\ resp[1].body.topics[1].timestamp = 3661
    /\ resp[1].body.topics[1].timestampFormatted = "1:01:01"
    /\ LastCall.doc[1].topics[1].timestampFormatted = "9:99"

\* C9: in server.js, once getTranscript has returned or thrown, every temporary subtitle
\* file a download strategy created has been removed
C9_NoTempFileLeft ==
    (variant = "server" /\ pc \in {"analyze", "done"}) => files = {}

\* C10: in server.js, a timeout of a subprocess call (metadata or subtitle download) counts
\* only as that call's failure: once getTranscript is over, the strategy after the timed-out
\* call was attempted, and a non-empty yield of a strategy became the transcript
C10_TimeoutIsNotFatal ==
    (variant = "server" /\ pc \in {"analyze", "done"}) =>
        /\ \A i \in 1..Len(calls) :
               (calls[i].result = "timeout" /\ i < 3) => Len(calls) > i
        /\ \A i \in 1..Len(calls) :
               (calls[i].name \in Strategies /\ calls[i].yield # <<>>) => transcript # <<>>

\* C13: the transcript getTranscript returns to the handler never holds two adjacent
\* segments with identical text
C13_NoAdjacentDuplicates ==
    pc \in {"analyze", "done"} =>
        \A i \in 1..(Len(transcript) - 1) : transcript[i].text # transcript[i + 1].text

\* C18: every invocation of a request handler sends exactly one HTTP response, also for a
\* request without a body and for every failure of an external call: no exception leaves
\* the handler and no second response is sent
C18_ExactlyOneResponse ==
    /\ pc # "threw"
    /\ Len(resp) <= 1
    /\ pc = "done" => Len(resp) = 1

----------------------------------------------------------------------------
(* One function of the program applied to one input *)

\* the handler variables while no request is modelled
HandlerIdle ==
    /\ variant = "server" /\ pc = "idle" /\ req = None
    /\ calls = <<>> /\ files = {} /\ logs = <<>>
    /\ meta = [title |-> None, duration |-> 0]
    /\ track = None /\ transcript = <<>>
    /\ prepared = [fullText |-> "", totalDuration |-> 0]
    /\ resp = <<>>

MaxSeconds == 3700
MaxSegments == 2

\* the copies of formatTimestamp in api/analyze.js, unnamed/part_000 and app.js
formatTimestamp_api(seconds) ==
    LET hrs == seconds \div 3600
        mins == (seconds % 3600) \div 60
        secs == seconds % 60
    IN  IF hrs > 0
        THEN ToString(hrs) \o ":" \o padStart2(mins) \o ":" \o padStart2(secs)
        ELSE ToString(mins) \o ":" \o padStart2(secs)

formatTimestamp_part0(seconds) ==
    LET hrs == seconds \div 3600
        mins == (seconds % 3600) \div 60
        secs == seconds % 60
    IN  IF hrs > 0
        THEN ToString(hrs) \o ":" \o padStart2(mins) \o ":" \o padStart2(secs)
        ELSE ToString(mins) \o ":" \o padStart2(secs)

formatTimestamp_app(seconds) ==
    LET hrs == seconds \div 3600
        mins == (seconds % 3600) \div 60
        secs == seconds % 60
    IN  IF hrs > 0
        THEN ToString(hrs) \o ":" \o padStart2(mins) \o ":" \o padStart2(secs)
        ELSE ToString(mins) \o ":" \o padStart2(secs)

\* whole numbers of seconds: every value up to MaxSeconds and some beyond ten hours
SecondsSamples == (0..MaxSeconds) \cup {35999, 36000, 86399, 86400, 359999, 360000}

\* caption segments; offset and duration are in milliseconds
SegmentSamples ==
    {[text |-> "Hello world", offset |-> 0, duration |-> 2000],
     [text |-> "a", offset |-> 1500, duration |-> 700],
     [text |-> "a", offset |-> 59999, duration |-> 0],
     [text |-> "b", offset |-> 3661999, duration |-> 1]}

TranscriptSamples == SeqsUpTo(SegmentSamples, MaxSegments)

Apply_formatTimestamp ==
    /\ fn = "none" /\ arg.for = "formatTimestamp"
    /\ fn' = "formatTimestamp"
    /\ ret' = [server |-> formatTimestamp(arg.value), api |-> formatTimestamp_api(arg.value),
               part0 |-> formatTimestamp_part0(arg.value), app |-> formatTimestamp_app(arg.value)]
    /\ UNCHANGED <<arg, handlerVars, loopVars, pageVars>>

Apply_prepareTranscriptForAnalysis ==
    /\ fn = "none" /\ arg.for = "prepareTranscriptForAnalysis"
    /\ fn' = "prepareTranscriptForAnalysis"
    /\ ret' = prepareTranscriptForAnalysis(arg.value)
    /\ UNCHANGED <<arg, handlerVars, loopVars, pageVars>>

\* JSON null where the documents carry a number; their numbers are not negative
JsonNull == -1

\* caption events: those of Json3EventSamples, and events with an empty segs array, with text
\* that trims to nothing, with a start of 0 and no duration, and with a null start
EventSamples ==
    Json3EventSamples
    \cup {[segs |-> <<>>, tStartMs |-> 3000],
          [segs |-> <<[utf8 |-> " "], [utf8 |-> "\n "]>>, tStartMs |-> 4000, dDurationMs |-> 500],
          [segs |-> <<[utf8 |-> " c "]>>, tStartMs |-> 0],
          [segs |-> <<[utf8 |-> "d"]>>, tStartMs |-> JsonNull, dDurationMs |-> 500]}

EventLists == SeqsUpTo(EventSamples, MaxEvents)

\* language codes of caption tracks
LanguageCodes == {"en", "en-US", "en-GB", "en-AU", "fr", "de"}

\* transcript lists of the library, each transcript with its language code
TranscriptLists == SeqsUpTo({[languageCode |-> l] : l \in LanguageCodes}, MaxTracks)

\* captionTracks of a video page; vssId is "." and the language code, "a." and the code for
\* an auto-generated track
CaptionTrackSamples ==
    {[languageCode |-> l, vssId |-> "." \o l, baseUrl |-> "https://c/" \o l]
        : l \in LanguageCodes}
    \cup {[languageCode |-> "en", vssId |-> "a.en", baseUrl |-> "https://c/a.en"],
          [languageCode |-> "en-GB", baseUrl |-> "https://c/en-GB?"],
          [languageCode |-> "en", vssId |-> ".en"]}

CaptionTrackLists ==
    {ts \in SeqsUpTo(CaptionTrackSamples, MaxTracks) : Len(ts) > 0}

Apply_parseJSON3 ==
    /\ fn = "none" /\ arg.for = "parseJSON3"
    /\ fn' = "parseJSON3"
    /\ ret' = parseJSON3([valid |-> TRUE, value |-> [events |-> arg.value]]).value
    /\ UNCHANGED <<arg, handlerVars, loopVars, pageVars>>

Apply_captionEvents ==
    /\ fn = "none" /\ arg.for = "captionEvents"
    /\ fn' = "captionEvents"
    /\ ret' = captionEvents(arg.value, <<>>)
    /\ UNCHANGED <<arg, handlerVars, loopVars, pageVars>>

Apply_selectTranscript ==
    /\ fn = "none" /\ arg.for = "selectTranscript"
    /\ fn' = "selectTranscript"
    /\ ret' = selectTranscript(arg.value)
    /\ UNCHANGED <<arg, handlerVars, loopVars, pageVars>>

Apply_selectCaptionUrl ==
    /\ fn = "none" /\ arg.for = "selectCaptionUrl"
    /\ fn' = "selectCaptionUrl"
    /\ ret' = selectCaptionUrl(arg.value)
    /\ UNCHANGED <<arg, handlerVars, loopVars, pageVars>>

\* replies made of prose, one brace-delimited object and further prose
ProseBefore == {"", "Here is the analysis: "}
ProseAfter == {"", " Hope this helps.", " }", " (the {summary} is short)"}

\* the extraction and parse of analyzeWithClaude applied to a reply
Apply_analyzeWithClaude ==
    /\ fn = "none" /\ arg.for = "analyzeWithClaude"
    /\ fn' = "analyzeWithClaude"
    /\ LET reply == [kind |-> "reply", text |-> arg.before \o arg.object \o arg.after,
                     engine |-> arg.engine]
       IN  ret' = [kind |-> replyKind(reply), doc |-> replyDoc(reply)]
    /\ UNCHANGED <<arg, handlerVars, loopVars, pageVars>>

InitFn ==
    /\ HandlerIdle /\ LoopIdle /\ PageIdle
    /\ fn = "none" /\ ret = None
    /\ \/ arg \in {[for |-> "formatTimestamp", value |-> s] : s \in SecondsSamples}
       \/ arg \in {[for |-> "prepareTranscriptForAnalysis", value |-> t]
                   : t \in TranscriptSamples}
       \/ arg \in {[for |-> "parseJSON3", value |-> es] : es \in EventLists}
       \/ arg \in {[for |-> "captionEvents", value |-> es] : es \in EventLists}
       \/ arg \in {[for |-> "selectTranscript", value |-> ts] : ts \in TranscriptLists}
       \/ arg \in {[for |-> "selectCaptionUrl", value |-> ts] : ts \in CaptionTrackLists}
       \/ arg \in {[for |-> "analyzeWithClaude", before |-> b, object |-> o, after |-> a,
                    engine |-> e]
                   : b \in ProseBefore,
                     o \in {d.text : d \in JsonDocs} \cup {x.text : x \in BrokenObjects},
                     a \in ProseAfter, e \in JsonEngines}

NextFn ==
    \/ Apply_formatTimestamp
    \/ Apply_prepareTranscriptForAnalysis
    \/ Apply_parseJSON3
    \/ Apply_captionEvents
    \/ Apply_selectTranscript
    \/ Apply_selectCaptionUrl
    \/ Apply_analyzeWithClaude

SpecFn == InitFn /\ [][NextFn]_vars

----------------------------------------------------------------------------
(* Properties of the functions *)

\* a number below 100 written with two digits
TwoDigits(n) == ToString(n \div 10) \o ToString(n % 10)

\* C16: for every whole number of seconds s >= 0, formatTimestamp(s) is 'H:MM:SS' with
\* H = s div 3600 unpadded and two-digit minutes and seconds when s >= 3600, and 'M:SS' with
\* unpadded minutes and two-digit seconds otherwise (0 -> '0:00', 59 -> '0:59', 60 -> '1:00',
\* 3600 -> '1:00:00', 3661 -> '1:01:01'), and the copies in server.js, api/analyze.js,
\* unnamed/part_000 and app.js agree on every input.
C16_FormatTimestamp ==
    fn = "formatTimestamp" =>
        LET s == arg.value
            r == ret.server
        IN  /\ ret.api = r /\ ret.part0 = r /\ ret.app = r
            /\ s >= 3600 => r = ToString(s \div 3600) \o ":" \o TwoDigits((s \div 60) % 60)
                                \o ":" \o TwoDigits(s % 60)
            /\ s < 3600 => r = ToString(s \div 60) \o ":" \o TwoDigits(s % 60)
            /\ s = 0 => r = "0:00"
            /\ s = 59 => r = "0:59"
            /\ s = 60 => r = "1:00"
            /\ s = 3600 => r = "1:00:00"
            /\ s = 3661 => r = "1:01:01"

\* C16 witness: 3661 seconds were formatted as '1:01:01' by the copy in app.js
C16_Witness ==
    fn = "formatTimestamp" /\ arg.value = 3661 /\ ret.app = "1:01:01"

\* C15: for every transcript, prepareTranscriptForAnalysis returns fullText made of exactly one
\* entry '[<formatTimestamp(floor(offset/1000))>] <text>' per segment, in segment order, each
\* ended by a newline ('[0:00] Hello world\n' for the single segment {text:'Hello world',
\* offset:0, duration:2000}), and totalDuration = floor((last.offset + last.duration)/1000),
\* or 0 for an empty transcript.
C15_PrepareTranscript ==
    fn = "prepareTranscriptForAnalysis" =>
        LET t == arg.value
            entries == split(ret.fullText, "\n")
        IN  /\ Len(entries) = Len(t) + 1
            /\ entries[Len(entries)] = ""
            /\ \A i \in 1..Len(t) :
                   entries[i] = "[" \o formatTimestamp(t[i].offset \div 1000) \o "] " \o t[i].text
            /\ ret.totalDuration = IF Len(t) = 0 THEN 0
                                   ELSE (t[Len(t)].offset + t[Len(t)].duration) \div 1000
            /\ t = <<[text |-> "Hello world", offset |-> 0, duration |-> 2000]>> =>
                   ret = [fullText |-> "[0:00] Hello world\n", totalDuration |-> 2]

\* C15 witness: a two-segment transcript starting with 'Hello world' whose last segment ends
\* at 3662 seconds
C15_Witness ==
    /\ fn = "prepareTranscriptForAnalysis" /\ Len(arg.value) = 2
    /\ arg.value[1].text = "Hello world"
    /\ ret.totalDuration = 3662
    /\ ret.fullText = "[0:00] Hello world\n[1:01:01] b\n"

\* an event for which the parser is to emit a segment: it has a segs array and a numeric
\* start time, and its concatenated text is not empty after trimming
EmitsSegment(event) ==
    /\ "segs" \in DOMAIN event /\ "tStartMs" \in DOMAIN event
    /\ event.tStartMs # JsonNull
    /\ trim(joinUtf8(event.segs)) # ""

\* C17: the event-stream parsers (parseJSON3, the event loop of unnamed/part_000) emit, in
\* event order, exactly one segment for each event that has a segs array, a numeric start
\* time and text that is not empty after trimming, with offset = tStartMs and
\* duration = dDurationMs or 0, and no segment for any other event
C17_OneSegmentPerTextEvent ==
    fn \in {"parseJSON3", "captionEvents"} =>
        LET expected == SelectSeq(arg.value, EmitsSegment)
        IN  /\ Len(ret) = Len(expected)
            /\ \A i \in 1..Len(ret) :
                   /\ ret[i].offset = expected[i].tStartMs
                   /\ ret[i].duration = IF "dDurationMs" \in DOMAIN expected[i]
                                        THEN expected[i].dDurationMs ELSE 0
                   /\ ret[i].text # ""

\* a language code that is English: 'en' or an 'en-*' variant
IsEnglish(code) == code = "en" \/ startsWith(code, "en-")

\* the first English track of a non-empty list, or else the first track
PreferredTrack(tracks) ==
    LET english == {i \in 1..Len(tracks) : IsEnglish(tracks[i].languageCode)}
    IN  IF english = {} THEN tracks[1]
        ELSE tracks[CHOOSE i \in english : \A j \in english : i <= j]

\* C12: among several caption tracks the one selected is the first track whose language code
\* is English ('en' or 'en-*') if there is one, and otherwise the first track
C12_FirstEnglishTrackSelected ==
    /\ (fn = "selectTranscript" /\ Len(arg.value) > 0) =>
           ret = Some(PreferredTrack(arg.value))
    /\ (fn = "selectCaptionUrl" /\ "baseUrl" \in DOMAIN PreferredTrack(arg.value)) =>
           ret = Some(PreferredTrack(arg.value).baseUrl)

\* C14: for every reply made of prose, one valid JSON object and further prose (which may
\* hold '{' or '}'), the parsed result is that object; the extraction fails only when the
\* reply holds no such object or the object is not valid JSON
C14_FirstBalancedObjectParsed ==
    fn = "analyzeWithClaude" =>
        IF \E d \in JsonDocs : d.text = arg.object
        THEN /\ ret.kind = "json"
             /\ ret.doc = Some((CHOOSE d \in JsonDocs : d.text = arg.object).value)
        ELSE ret.kind \in {"no-json", "invalid-json"}

----------------------------------------------------------------------------
(* The server.js process: several requests on one event loop *)

NumRequests == 3
Requests == 1..NumRequests

\* execSync does not return to the event loop until the subprocess has ended;
\* `await anthropic.messages.create(...)` does
InExecSync(r) == stage[r] \in {"info", "vtt", "json3"}
WaitingOnExternal(r) == InExecSync(r) \/ stage[r] = "llm"

\* a client's POST reaches the process
LoopSend(r) ==
    /\ stage[r] = "unsent"
    /\ stage' = [stage EXCEPT ![r] = "queued"]
    /\ UNCHANGED <<thread, handlerVars, fnVars, pageVars>>

\* the handler is invoked: validation, then getTranscript up to its first execSync
LoopHandle(r) ==
    /\ thread = 0
    /\ stage[r] = "queued"
    /\ \E id \in VideoIds :
         IF validate(id) # None
         THEN stage' = [stage EXCEPT ![r] = "responded"] /\ thread' = 0
         ELSE stage' = [stage EXCEPT ![r] = "info"] /\ thread' = r
    /\ UNCHANGED <<handlerVars, fnVars, pageVars>>

\* `yt-dlp -j` ends: on success getTranscript goes on to the vtt download, on
\* failure it throws and the handler's await gives the thread back
LoopInfoReturns(r) ==
    /\ thread = r
    /\ stage[r] = "info"
    /\ \E ok \in BOOLEAN :
         IF ok
         THEN stage' = [stage EXCEPT ![r] = "vtt"] /\ thread' = r
         ELSE stage' = [stage EXCEPT ![r] = "rejected"] /\ thread' = 0
    /\ UNCHANGED <<handlerVars, fnVars, pageVars>>

\* the vtt download ends: with a transcript getTranscript returns, without one
\* (or on a throw, which is caught) it goes on to the json3 download
LoopVttReturns(r) ==
    /\ thread = r
    /\ stage[r] = "vtt"
    /\ \E found \in BOOLEAN :
         IF found
         THEN stage' = [stage EXCEPT ![r] = "resolved"] /\ thread' = 0
         ELSE stage' = [stage EXCEPT ![r] = "json3"] /\ thread' = r
    /\ UNCHANGED <<handlerVars, fnVars, pageVars>>

\* the json3 download ends: getTranscript returns or throws 'No captions available'
LoopJson3Returns(r) ==
    /\ thread = r
    /\ stage[r] = "json3"
    /\ \E found \in BOOLEAN :
         stage' = [stage EXCEPT ![r] = IF found THEN "resolved" ELSE "rejected"]
    /\ thread' = 0
    /\ UNCHANGED <<handlerVars, fnVars, pageVars>>

\* the handler continues after `await getTranscript(videoId)`: it either sends
\* the LLM request and awaits it, or answers from its catch block
LoopResume(r) ==
    /\ thread = 0
    /\ stage[r] \in {"resolved", "rejected"}
    /\ stage' = [stage EXCEPT ![r] = IF stage[r] = "resolved" THEN "llm" ELSE "responded"]
    /\ UNCHANGED <<thread, handlerVars, fnVars, pageVars>>

\* the LLM request settles (reply or error) while the thread is free or busy
LoopLlmSettles(r) ==
    /\ stage[r] = "llm"
    /\ stage' = [stage EXCEPT ![r] = "replied"]
    /\ UNCHANGED <<thread, handlerVars, fnVars, pageVars>>

\* the handler continues after the LLM call and answers
LoopFinish(r) ==
    /\ thread = 0
    /\ stage[r] = "replied"
    /\ stage' = [stage EXCEPT ![r] = "responded"]
    /\ UNCHANGED <<thread, handlerVars, fnVars, pageVars>>

InitLoop ==
    /\ HandlerIdle /\ FnIdle /\ PageIdle
    /\ stage = [r \in Requests |-> "unsent"]
    /\ thread = 0

NextLoop ==
    \E r \in Requests :
        \/ LoopSend(r)
        \/ LoopHandle(r)
        \/ LoopInfoReturns(r)
        \/ LoopVttReturns(r)
        \/ LoopJson3Returns(r)
        \/ LoopResume(r)
        \/ LoopLlmSettles(r)
        \/ LoopFinish(r)

SpecLoop == InitLoop /\ [][NextLoop]_vars

\* C11: while a request waits on an external call (a yt-dlp subprocess or the
\* LLM call), the process can start every other request that has arrived and
\* continue every other request whose external call has ended.
C11_ProcessStaysResponsive ==
    \A r \in Requests : WaitingOnExternal(r) =>
        \A q \in Requests \ {r} :
            /\ stage[q] = "queued" => ENABLED LoopHandle(q)
            /\ stage[q] \in {"resolved", "rejected"} => ENABLED LoopResume(q)
            /\ stage[q] = "replied" => ENABLED LoopFinish(q)

----------------------------------------------------------------------------
(* app.js: the page *)

MaxSubmits == 3

WatchPrefixes == {"youtube.com/watch?v=", "youtu.be/", "youtube.com/embed/", "youtube.com/v/"}
ShortsPrefixes == {"youtube.com/shorts/"}

\* the ids a pattern (one of the prefixes, then eleven id characters) matches at position i
matchAt(url, prefixes, i) ==
    {SubSeq(url, i + Len(p), i + Len(p) + IdLen - 1) :
        p \in {q \in prefixes : /\ Sub(url, i, i + Len(q) - 1) = q
                                /\ matchIdChars(url, i + Len(q), IdLen) # 0}}

\* url.match(pattern): the capture group of the leftmost match, None for null
patternMatch(url, prefixes) ==
    LET hits == {i \in 1..Len(url) : matchAt(url, prefixes, i) # {}}
    IN  IF hits = {} THEN None
        ELSE LET first == CHOOSE i \in hits : \A j \in hits : i <= j
             IN  Some(CHOOSE id \in matchAt(url, prefixes, first) : TRUE)

extractVideoId(url) ==
    IF patternMatch(url, WatchPrefixes) # None THEN patternMatch(url, WatchPrefixes)
    ELSE patternMatch(url, ShortsPrefixes)

\* what the user may put into the URL field
UrlSamples ==
    {"", "  ", "cats", "https://youtu.be/short",
     "https://youtu.be/dQw4w9WgXcQ",
     " https://www.youtube.com/watch?v=abcdefghijk ",
     "https://youtube.com/shorts/A_B-C_D-E_F"}

\* the form's submit listener up to its await: nothing for an empty field;
\* otherwise hideError, setLoading(true), the results hidden, and analyzeVideo
\* either throws for a URL without a video id (showError, then setLoading(false)
\* of the finally block) or sends the request
SubmitListener ==
    LET url == trim(urlValue)
        n == submitted + 1
    IN  IF url = ""
        THEN UNCHANGED <<inflight, submitted, loading, errorVisible, resultsHidden,
                         shown, errorOf>>
        ELSE /\ submitted' = n
             /\ resultsHidden' = TRUE
             /\ shown' = shown
             /\ IF extractVideoId(url) = None
                THEN /\ errorVisible' = TRUE
                     /\ errorOf' = n
                     /\ loading' = FALSE
                     /\ inflight' = inflight
                ELSE /\ errorVisible' = FALSE
                     /\ errorOf' = errorOf
                     /\ loading' = TRUE
                     /\ inflight' = inflight \cup {[n |-> n, videoId |-> extractVideoId(url)[1]]}

\* the user types into the URL field
PageInput ==
    /\ \E u \in UrlSamples : urlValue' = u
    /\ UNCHANGED <<timers, inflight, submitted, loading, errorVisible, resultsHidden,
                   shown, errorOf>>
    /\ UNCHANGED <<handlerVars, fnVars, loopVars>>

\* the user pastes into the URL field: the paste listener sets its timeout
PagePaste ==
    /\ submitted + timers < MaxSubmits
    /\ \E u \in UrlSamples : urlValue' = u
    /\ timers' = timers + 1
    /\ UNCHANGED <<inflight, submitted, loading, errorVisible, resultsHidden, shown, errorOf>>
    /\ UNCHANGED <<handlerVars, fnVars, loopVars>>

\* the timeout of the paste listener fires: a submit event is dispatched when
\* the field holds a URL with a video id, whatever the state of the button
PageTimeout ==
    /\ timers > 0
    /\ timers' = timers - 1
    /\ IF trim(urlValue) # "" /\ extractVideoId(trim(urlValue)) # None
       THEN SubmitListener
       ELSE UNCHANGED <<inflight, submitted, loading, errorVisible, resultsHidden,
                        shown, errorOf>>
    /\ UNCHANGED urlValue
    /\ UNCHANGED <<handlerVars, fnVars, loopVars>>

\* the user submits the form with the button (or Enter), which a disabled
\* button does not allow
PageSubmit ==
    /\ ~loading
    /\ submitted + timers < MaxSubmits
    /\ SubmitListener
    /\ UNCHANGED <<urlValue, timers>>
    /\ UNCHANGED <<handlerVars, fnVars, loopVars>>

\* the answer to a request arrives, in any order: data are rendered
\* (renderResults shows the results panel), or the error of a failed request is
\* shown (showError hides the results panel); then setLoading(false)
PageResponse ==
    /\ \E q \in inflight, ok \in BOOLEAN :
         /\ inflight' = inflight \ {q}
         /\ IF ok
            THEN /\ shown' = q.n
                 /\ resultsHidden' = FALSE
                 /\ UNCHANGED <<errorVisible, errorOf>>
            ELSE /\ errorVisible' = TRUE
                 /\ errorOf' = q.n
                 /\ resultsHidden' = TRUE
                 /\ shown' = shown
    /\ loading' = FALSE
    /\ UNCHANGED <<urlValue, timers, submitted>>
    /\ UNCHANGED <<handlerVars, fnVars, loopVars>>

InitPage == HandlerIdle /\ FnIdle /\ LoopIdle /\ PageIdle

NextPage ==
    \/ PageInput
    \/ PagePaste
    \/ PageTimeout
    \/ PageSubmit
    \/ PageResponse

SpecPage == InitPage /\ [][NextPage]_vars

\* C19: the loading state is on exactly while an analysis request is in flight.
C19_LoadingIffInFlight == loading <=> inflight # {}

\* C20: once no request is in flight the page shows the outcome of the last
\* submitted URL only (its results without the error, or its error without the
\* results), and the error and the results are never visible together.
C20_LastSubmissionShown ==
    /\ ~(errorVisible /\ ~resultsHidden)
    /\ (inflight = {} /\ submitted > 0) =>
          \/ ~resultsHidden /\ shown = submitted /\ ~errorVisible
          \/ errorVisible /\ errorOf = submitted /\ resultsHidden

====
